---- MODULE Spec2Model ----
(***************************************************************************)
(* Client-side list management of the admin dashboard: the search ->       *)
(* filter -> sort -> paginate -> select -> bulk-action pipeline of the     *)
(* Orders, Products and Customers pages.                                    *)
(*                                                                         *)
(* Strings are sequences of one-character strings, so that toLowerCase,    *)
(* includes and localeCompare are computed rather than assumed.            *)
(***************************************************************************)
EXTENDS Integers, Sequences, FiniteSets, TLC

(* ------------------------------ bounds -------------------------------- *)
\* Number of records of the mock collection (45 / 30 / 25 in the source).
MockLen == 3
\* Page sizes of the three viewport classes, scaled with the collection.
SizeMobile == 1
SizeTablet == 2
SizeDesktop == 3

(* --------------------------- page variants ---------------------------- *)
\* Orders.tsx 1-883, Orders.tsx 884-1588, Products.tsx, part_003,
\* Customers.tsx (and part_001), part_002.
OrdersBulk == "OrdersBulk"
OrdersBasic == "OrdersBasic"
ProductsCrud == "ProductsCrud"
ProductsBulk == "ProductsBulk"
CustomersBasic == "CustomersBasic"
CustomersBulk == "CustomersBulk"

BulkKinds == {OrdersBulk, ProductsBulk, CustomersBulk}
OrderKinds == {OrdersBulk, OrdersBasic}
ProductKinds == {ProductsCrud, ProductsBulk}
CustomerKinds == {CustomersBasic, CustomersBulk}
\* Pages whose search box goes through lodash debounce.
DebouncedKinds == {OrdersBulk, OrdersBasic, ProductsCrud, ProductsBulk, CustomersBulk}
\* Pages with the "reset page if out of bounds" effect.
ClampKinds == {OrdersBulk, OrdersBasic, ProductsCrud, ProductsBulk, CustomersBulk}
\* Pages with sortable column headers.
SortKinds == {OrdersBulk, OrdersBasic, ProductsCrud, ProductsBulk, CustomersBulk}
AllKinds == BulkKinds \cup {OrdersBasic, ProductsCrud, CustomersBasic}

Devices == {"mobile", "tablet", "desktop"}

(* ------------------------------ strings ------------------------------- *)
\* String.prototype.toLowerCase, one character.
LowerChar(c) ==
  CASE c = "A" -> "a"
    [] c = "B" -> "b"
    [] c = "C" -> "c"
    [] OTHER -> c

toLowerCase(s) == [i \in 1..Len(s) |-> LowerChar(s[i])]

\* Whether q occurs in s starting at position i (1-based).
MatchAt(s, q, i) ==
  /\ i + Len(q) - 1 <= Len(s)
  /\ \A k \in 1..Len(q) : s[i + k - 1] = q[k]

\* String.prototype.startsWith
startsWith(s, q) == MatchAt(s, q, 1)

\* String.prototype.includes: scan the start positions from the left.
RECURSIVE IncludesFrom(_, _, _)
IncludesFrom(s, q, i) ==
  IF i + Len(q) - 1 > Len(s) THEN FALSE
  ELSE IF MatchAt(s, q, i) THEN TRUE
  ELSE IncludesFrom(s, q, i + 1)

includes(s, q) == IncludesFrom(s, q, 1)

\* Collation weight of a letter or digit (primary strength).
CharRank(c) ==
  CASE LowerChar(c) = "-" -> 0
    [] LowerChar(c) = "1" -> 1
    [] LowerChar(c) = "2" -> 2
    [] LowerChar(c) = "3" -> 3
    [] LowerChar(c) = "4" -> 4
    [] LowerChar(c) = "a" -> 11
    [] LowerChar(c) = "b" -> 12
    [] LowerChar(c) = "c" -> 13
    [] LowerChar(c) = "o" -> 14
    [] LowerChar(c) = "p" -> 15
    [] OTHER -> 20

\* Case weight (tertiary strength): lower case sorts before upper case.
CaseRank(c) == IF LowerChar(c) = c THEN 0 ELSE 1

\* Lexicographic comparison of two weight sequences: -1, 0 or 1.
RECURSIVE CompareWeights(_, _, _)
CompareWeights(u, v, i) ==
  IF i > Len(u) /\ i > Len(v) THEN 0
  ELSE IF i > Len(u) THEN -1
  ELSE IF i > Len(v) THEN 1
  ELSE IF u[i] < v[i] THEN -1
  ELSE IF u[i] > v[i] THEN 1
  ELSE CompareWeights(u, v, i + 1)

\* String.prototype.localeCompare: letters first, case breaks the ties.
localeCompare(s, t) ==
  LET p == CompareWeights([i \in 1..Len(s) |-> CharRank(s[i])],
                          [i \in 1..Len(t) |-> CharRank(t[i])], 1)
  IN IF p # 0 THEN p
     ELSE CompareWeights([i \in 1..Len(s) |-> CaseRank(s[i])],
                         [i \in 1..Len(t) |-> CaseRank(t[i])], 1)

(* ------------------------------ records ------------------------------ *)
\* One record shape for the three entities:
\*   Order    : id, name = customerName, status, amount = total, date = createdAt
\*   Product  : id, name, text = description, category, status, amount = price,
\*              count = stock, date = lastUpdated
\*   Customer : id, name, text = email, count = totalOrders,
\*              amount = totalSpent, date = createdAt
Digit(i) == <<"1", "2", "3", "4", "5", "6">>[i]
Cyc(t, i) == t[((i - 1) % Len(t)) + 1]

MockNames == << <<"A", "b">>, <<"a">>, <<"b">>, <<"B", "a">> >>

mockOrders ==
  [i \in 1..MockLen |->
     [id |-> <<"o", "-", Digit(i)>>,
      name |-> Cyc(MockNames, i),
      text |-> <<>>,
      category |-> <<>>,
      status |-> Cyc(<<"pending", "cancelled", "pending", "shipped">>, i),
      amount |-> Cyc(<<2, 1, 2, 3>>, i),
      count |-> 1,
      date |-> Cyc(<<3, 1, 2, 4>>, i)]]

mockProducts ==
  [i \in 1..MockLen |->
     [id |-> <<"p", Digit(i)>>,
      name |-> Cyc(MockNames, i),
      text |-> <<"p", Digit(i)>>,
      category |-> Cyc(<< <<"c">>, <<"b">>, <<"c">>, <<"a">> >>, i),
      status |-> Cyc(<<"active", "inactive", "active", "active">>, i),
      amount |-> Cyc(<<2, 1, 2, 3>>, i),
      count |-> Cyc(<<0, 2, 1, 1>>, i),
      date |-> Cyc(<<3, 1, 2, 4>>, i)]]

mockCustomers ==
  [i \in 1..MockLen |->
     [id |-> <<"c", Digit(i)>>,
      name |-> Cyc(MockNames, i),
      text |-> <<"c", Digit(i)>>,
      category |-> <<>>,
      status |-> "",
      amount |-> Cyc(<<2, 1, 2, 3>>, i),
      count |-> Cyc(<<1, 2, 1, 3>>, i),
      date |-> Cyc(<<3, 1, 2, 4>>, i)]]

MockOf(k) ==
  IF k \in OrderKinds THEN mockOrders
  ELSE IF k \in ProductKinds THEN mockProducts
  ELSE mockCustomers

\* (isDesktop ? desktop : isTablet ? tablet : mobile); Customers.tsx has
\* only two sizes (isDesktop ? 7 : 5).
ItemsPerPage(k, d) ==
  IF k = CustomersBasic
  THEN (IF d = "desktop" THEN SizeDesktop ELSE SizeMobile)
  ELSE IF d = "desktop" THEN SizeDesktop
  ELSE IF d = "tablet" THEN SizeTablet
  ELSE SizeMobile

(* ------------------------------- filter ------------------------------- *)
getCustomerStatus(c) == IF c.count > 0 THEN "active" ELSE "inactive"

StatusOf(k, r) == IF k \in CustomerKinds THEN getCustomerStatus(r) ELSE r.status

\* The query compared as typed.
QueryAsTyped(q) == q

\* The query as the filter callback uses it.
QueryOf(q) == toLowerCase(q)

matchesSearch(k, r, q) ==
  IF k \in OrderKinds
  THEN \/ includes(toLowerCase(r.id), QueryOf(q))
       \/ includes(toLowerCase(r.name), QueryOf(q))
  ELSE IF k \in CustomerKinds
  THEN \/ includes(toLowerCase(r.name), QueryOf(q))
       \/ includes(toLowerCase(r.text), QueryOf(q))
  ELSE \/ includes(toLowerCase(r.name), QueryOf(q))
       \/ includes(toLowerCase(r.text), QueryOf(q))
       \/ includes(toLowerCase(r.category), QueryOf(q))

\* part_003 has no status filter; only Products.tsx has a category filter.
matchesStatus(k, r, sf) ==
  IF k = ProductsBulk THEN TRUE ELSE sf = "all" \/ StatusOf(k, r) = sf

matchesCategory(k, r, cf) ==
  IF k = ProductsCrud THEN cf = <<"all">> \/ r.category = cf ELSE TRUE

\* Array.prototype.filter: the elements that pass, in order, in a new array.
RECURSIVE FilterFrom(_, _, _, _, _, _)
FilterFrom(k, src, q, sf, cf, i) ==
  IF i > Len(src) THEN <<>>
  ELSE IF /\ matchesSearch(k, src[i], q)
          /\ matchesStatus(k, src[i], sf)
          /\ matchesCategory(k, src[i], cf)
       THEN <<src[i]>> \o FilterFrom(k, src, q, sf, cf, i + 1)
       ELSE FilterFrom(k, src, q, sf, cf, i + 1)

FilterStep(k, src, q, sf, cf) == FilterFrom(k, src, q, sf, cf, 1)

(* -------------------------------- sort -------------------------------- *)
SORTABLE_COLUMNS(k) ==
  IF k \in OrderKinds THEN {"id", "customerName", "createdAt", "total"}
  ELSE IF k = ProductsCrud THEN {"name", "category", "price", "stock", "lastUpdated"}
  ELSE IF k = ProductsBulk THEN {"name", "category", "price", "stock"}
  ELSE IF k = CustomersBulk
       THEN {"name", "email", "createdAt", "totalOrders", "totalSpent"}
  ELSE {}

\* a[sortColumn]
ColumnValue(r, col) ==
  CASE col = "id" -> r.id
    [] col \in {"customerName", "name"} -> r.name
    [] col = "email" -> r.text
    [] col = "category" -> r.category
    [] col \in {"total", "price", "totalSpent"} -> r.amount
    [] col \in {"stock", "totalOrders"} -> r.count
    [] OTHER -> r.date

\* typeof a[sortColumn]; "object" is a Date.
TypeOfColumn(col) ==
  CASE col \in {"id", "customerName", "name", "email", "category"} -> "string"
    [] col \in {"total", "price", "totalSpent", "stock", "totalOrders"} -> "number"
    [] col = "lastUpdated" -> "string"
    [] OTHER -> "object"

\* A comparator that does not look at the direction.
ComparatorAscending(k, col, dir, a, b) ==
  IF TypeOfColumn(col) = "string" /\ col # "lastUpdated"
  THEN localeCompare(ColumnValue(a, col), ColumnValue(b, col))
  ELSE ColumnValue(a, col) - ColumnValue(b, col)

\* The comparator handed to Array.prototype.sort.
Comparator(k, col, dir, a, b) ==
  LET aValue == ColumnValue(a, col)
      bValue == ColumnValue(b, col)
  IN IF k = ProductsCrud /\ col = "lastUpdated"
     THEN (IF dir = "asc" THEN aValue - bValue ELSE bValue - aValue)
     ELSE IF TypeOfColumn(col) = "string"
     THEN (IF dir = "asc" THEN localeCompare(aValue, bValue)
                          ELSE localeCompare(bValue, aValue))
     ELSE IF TypeOfColumn(col) = "number"
     THEN (IF dir = "asc" THEN aValue - bValue ELSE bValue - aValue)
     ELSE IF k = OrdersBulk /\ TypeOfColumn(col) = "object"
     THEN (IF dir = "asc" THEN aValue - bValue ELSE bValue - aValue)
     ELSE 0

\* Insert x before the elements that compare equal to it (an unstable sort).
RECURSIVE InsertBeforeTies(_, _, _, _, _)
InsertBeforeTies(k, col, dir, sorted, x) ==
  IF sorted = <<>> THEN <<x>>
  ELSE IF Comparator(k, col, dir, sorted[Len(sorted)], x) >= 0
       THEN InsertBeforeTies(k, col, dir, SubSeq(sorted, 1, Len(sorted) - 1), x)
            \o <<sorted[Len(sorted)]>>
       ELSE sorted \o <<x>>

\* Insert x after the last element that does not compare greater than it.
RECURSIVE InsertSorted(_, _, _, _, _)
InsertSorted(k, col, dir, sorted, x) ==
  IF sorted = <<>> THEN <<x>>
  ELSE IF Comparator(k, col, dir, sorted[Len(sorted)], x) > 0
       THEN InsertSorted(k, col, dir, SubSeq(sorted, 1, Len(sorted) - 1), x)
            \o <<sorted[Len(sorted)]>>
       ELSE sorted \o <<x>>

\* Array.prototype.sort on a copy: a stable comparison sort.
RECURSIVE SortFrom(_, _, _, _, _, _)
SortFrom(k, col, dir, arr, i, acc) ==
  IF i > Len(arr) THEN acc
  ELSE SortFrom(k, col, dir, arr, i + 1, InsertSorted(k, col, dir, acc, arr[i]))

SortStep(k, arr, col, dir) ==
  IF col = "none" THEN arr ELSE SortFrom(k, col, dir, arr, 1, <<>>)

\* filteredOrders / filteredProducts / filteredCustomers.
Filtered(k, src, q, sf, cf, col, dir) ==
  SortStep(k, FilterStep(k, src, q, sf, cf), col, dir)

(* ------------------------------ paginate ------------------------------ *)
Min(a, b) == IF a < b THEN a ELSE b
Max(a, b) == IF a > b THEN a ELSE b

\* Array.prototype.slice(start, end) for 0-based start and end.
slice(arr, start, end) ==
  LET len == Len(arr)
      from == IF start < 0 THEN Max(len + start, 0) ELSE Min(start, len)
      to == IF end < 0 THEN Max(len + end, 0) ELSE Min(end, len)
  IN IF to <= from THEN <<>> ELSE SubSeq(arr, from + 1, to)

\* The start index if pages were numbered from 0.
StartIndexZeroBased(page, size) == page * size

\* const startIndex = (currentPage - 1) * itemsPerPage
StartIndex(page, size) == (page - 1) * size

Paginate(arr, page, size) ==
  slice(arr, StartIndex(page, size), StartIndex(page, size) + size)

\* Math.floor(length / itemsPerPage)
TotalPagesFloor(len, size) == len \div size

\* Math.ceil(length / itemsPerPage)
TotalPagesOf(len, size) == (len + size - 1) \div size

(* ------------------------------- export ------------------------------- *)
\* A text is a sequence of characters; a run of plain characters that no
\* step looks into (a label, a status, a month name) is carried as one element.
Quote == "\""
Comma == ","
LineFeed == "\n"

\* s.replace(/"/g, '""')
RECURSIVE replaceQuotes(_)
replaceQuotes(s) ==
  IF s = <<>> THEN <<>>
  ELSE (IF Head(s) = Quote THEN <<Quote, Quote>> ELSE <<Head(s)>>)
       \o replaceQuotes(Tail(s))

\* The field written as it is.
unquoted(s) == s

\* `"${s.replace(/"/g, '""')}"`
quoted(s) == <<Quote>> \o replaceQuotes(s) \o <<Quote>>

DigitChar(d) == <<"0", "1", "2", "3", "4", "5", "6", "7", "8", "9">>[d + 1]

\* String(n) of a non-negative integer, as Array.prototype.join converts it.
RECURSIVE String(_)
String(n) ==
  IF n < 10 THEN <<DigitChar(n)>>
  ELSE String(n \div 10) \o <<DigitChar(n % 10)>>

\* en-US grouping: a comma between groups of three digits.
RECURSIVE Grouped(_)
Grouped(n) ==
  IF n < 1000 THEN String(n)
  ELSE Grouped(n \div 1000)
       \o <<Comma, DigitChar((n % 1000) \div 100), DigitChar((n % 100) \div 10),
            DigitChar(n % 10)>>

\* Intl.NumberFormat("en-US", {style: "currency", currency: "USD", ...}):
\* two fraction digits on the Orders page, none on the Customers page.
formatCurrency(k, n) ==
  <<"$">> \o Grouped(n) \o (IF k \in OrderKinds THEN <<".", "00">> ELSE <<>>)

\* format(new Date(d), "MMM d, yyyy"); the instant d is day d of January 2024.
formatDate(d) == <<"Jan", " ">> \o String(d) \o <<Comma, " ", "2024">>

\* format(new Date(d), "yyyy-MM-dd")
formatIsoDate(d) ==
  <<"2024", "-", "01", "-">> \o (IF d < 10 THEN <<"0">> ELSE <<>>) \o String(d)

\* The first row of the array handed to join.
ExportHeader(k) ==
  IF k \in OrderKinds
  THEN << <<"ID">>, <<"Customer">>, <<"Date">>, <<"Status">>, <<"Total">> >>
  ELSE IF k \in CustomerKinds
  THEN << <<"ID">>, <<"Name">>, <<"Email">>, <<"Joined">>, <<"Orders">>,
          <<"Spent">>, <<"Status">> >>
  ELSE IF k = ProductsBulk
  THEN << <<"ID">>, <<"Name">>, <<"Description">>, <<"Category">>, <<"Price">>,
          <<"Stock">>, <<"Status">> >>
  ELSE << <<"ID">>, <<"Name">>, <<"Description">>, <<"Category">>, <<"Price">>,
          <<"Stock">>, <<"Status">>, <<"Last Updated">> >>

\* The array a record is mapped to.
ExportRow(k, r) ==
  IF k \in OrderKinds
  THEN <<unquoted(r.id), quoted(r.name), formatDate(r.date), <<r.status>>,
         formatCurrency(k, r.amount)>>
  ELSE IF k \in CustomerKinds
  THEN <<unquoted(r.id), quoted(r.name), quoted(r.text), formatDate(r.date),
         String(r.count), formatCurrency(k, r.amount), <<getCustomerStatus(r)>> >>
  ELSE IF k = ProductsBulk
  THEN <<unquoted(r.id), quoted(r.name), quoted(r.text), unquoted(r.category),
         String(r.amount), String(r.count), <<r.status>> >>
  ELSE <<unquoted(r.id), quoted(r.name), quoted(r.text), unquoted(r.category),
         String(r.amount), String(r.count), <<r.status>>,
         formatIsoDate(r.date)>>

\* Array.prototype.join
RECURSIVE join(_, _)
join(parts, sep) ==
  IF parts = <<>> THEN <<>>
  ELSE IF Len(parts) = 1 THEN parts[1]
  ELSE parts[1] \o <<sep>> \o join(Tail(parts), sep)

\* [header, ...records.map(row)].map((row) => row.join(",")).join("\n")
csvContent(k, records) ==
  join([i \in 1..Len(records) + 1 |->
          join(IF i = 1 THEN ExportHeader(k) ELSE ExportRow(k, records[i - 1]),
               Comma)],
       LineFeed)

\* A CSV reader (RFC 4180). A quote switches quoting on or off, so a comma
\* or line feed after an even number of quotes ends a field or a row.
QuotesBefore(text, i) == Cardinality({j \in 1..(i - 1) : text[j] = Quote})

Breaks(text, sep) ==
  {i \in 1..Len(text) : text[i] = sep /\ QuotesBefore(text, i) % 2 = 0}

\* The pieces of text between the positions in breaks.
SplitAt(text, breaks) ==
  LET ends == breaks \cup {Len(text) + 1}
      nth(k) == CHOOSE e \in ends : Cardinality({f \in ends : f <= e}) = k
      start(k) == IF k = 1 THEN 1 ELSE nth(k - 1) + 1
  IN [k \in 1..Cardinality(ends) |-> SubSeq(text, start(k), nth(k) - 1)]

\* Inside a quoted field two quotes stand for one.
RECURSIVE undouble(_)
undouble(s) ==
  IF s = <<>> THEN <<>>
  ELSE IF Len(s) >= 2 /\ s[1] = Quote /\ s[2] = Quote
  THEN <<Quote>> \o undouble(SubSeq(s, 3, Len(s)))
  ELSE <<s[1]>> \o undouble(Tail(s))

\* The value of a field: a field enclosed in quotes loses them.
fieldValue(f) ==
  IF Len(f) >= 2 /\ f[1] = Quote /\ f[Len(f)] = Quote
  THEN undouble(SubSeq(f, 2, Len(f) - 1))
  ELSE f

\* The rows of the file, each a sequence of field values.
ParseCsv(text) ==
  LET lines == SplitAt(text, Breaks(text, LineFeed))
  IN [i \in 1..Len(lines) |->
        LET fields == SplitAt(lines[i], Breaks(lines[i], Comma))
        IN [j \in 1..Len(fields) |-> fieldValue(fields[j])]]

(* ------------------------------- state -------------------------------- *)
VARIABLES
  kind,           \* which page component is mounted
  device,         \* useDeviceType(): the viewport class
  items,          \* orders / products / customers
  searchQuery,    \* the applied query
  inputText,      \* e.target.value of the last change event of the search box
  pendingSearch,  \* the debounced invocations waiting for their timer
  statusFilter,
  categoryFilter,
  currentPage,
  selectedIds,
  sortColumn,     \* "none" is null
  sortDirection,
  isLoading,
  showDialog,     \* showCancelDialog / showDeleteDialog
  isBusy,         \* isCancelling / isDeleting
  timers,         \* pending bulk timers, each with the count its closure holds
  filtered,       \* useMemo: filteredOrders / filteredProducts / filteredCustomers
  rows,           \* useMemo: paginatedOrders / ... (what the table receives)
  deleteProduct,  \* Products.tsx: the product of the delete dialog, <<>> is null
  editProduct,    \* Products.tsx: the product of the form modal, <<>> is null
  showAddModal,
  clock,          \* Products.tsx: saves so far (Date.now() of prod_<now>)
  toast,          \* the last notification emitted
  download,       \* the file the last handler saved (link.click()), if any
  lastOp          \* the handler that ran last

vars == <<kind, device, items, searchQuery, inputText, pendingSearch,
          statusFilter, categoryFilter, currentPage, selectedIds, sortColumn,
          sortDirection, isLoading, showDialog, isBusy, timers, filtered,
          rows, deleteProduct, editProduct, showAddModal, clock, toast,
          download, lastOp>>

\* The state of the Products.tsx dialogs.
crud == <<deleteProduct, editProduct, showAddModal, clock>>

NoPending == <<>>
NoToast == [level |-> "none", count |-> 0]
NoFile == <<>>
All == <<"all">>

itemsPerPage == ItemsPerPage(kind, device)
totalPages == TotalPagesOf(Len(filtered), itemsPerPage)
IdsOf(seq) == {seq[i].id : i \in 1..Len(seq)}

\* useMemo: recompute when a dependency changed, else keep the cached value.
Render ==
  LET filterDeps == <<items, searchQuery, statusFilter, categoryFilter,
                      sortColumn, sortDirection>>
      depsChanged == filterDeps' # filterDeps
  IN /\ filtered' =
          IF depsChanged
          THEN Filtered(kind', items', searchQuery', statusFilter',
                        categoryFilter', sortColumn', sortDirection')
          ELSE filtered
     /\ rows' =
          IF depsChanged \/ currentPage' # currentPage
                         \/ ItemsPerPage(kind', device') # itemsPerPage
          THEN Paginate(filtered', currentPage', ItemsPerPage(kind', device'))
          ELSE rows

\* A page without the effect.
ClampDisabled == FALSE

\* useEffect "reset page if out of bounds" has work to do.
ClampPending ==
  kind \in ClampKinds /\ currentPage > totalPages /\ totalPages > 0

\* Passive effects are flushed before the next event is handled.
Settled == ~ClampPending

\* <AlertDialog open>, <Dialog open>: an open dialog is modal, the page under
\* it takes no clicks or keys until the dialog is closed.
NoModal ==
  /\ ~showDialog
  /\ deleteProduct = <<>>
  /\ editProduct = <<>>
  /\ ~showAddModal

\* The user can operate the controls of the page.
Interactive == Settled /\ NoModal

\* The page mounted over the collection src (sel is the selection: empty at
\* the mount).
InitFrom(k, d, src, sel) ==
  /\ kind = k
  /\ device = d
  /\ items = src
  /\ searchQuery = <<>>
  /\ inputText = <<>>
  /\ pendingSearch = NoPending
  /\ statusFilter = "all"
  /\ categoryFilter = All
  /\ currentPage = 1
  /\ selectedIds = sel
  /\ sortColumn = "none"
  /\ sortDirection = "asc"
  /\ isLoading = TRUE
  /\ showDialog = FALSE
  /\ isBusy = FALSE
  /\ timers = <<>>
  /\ filtered = Filtered(k, src, <<>>, "all", All, "none", "asc")
  /\ rows = Paginate(Filtered(k, src, <<>>, "all", All, "none", "asc"),
                     1, ItemsPerPage(k, d))
  /\ deleteProduct = <<>>
  /\ editProduct = <<>>
  /\ showAddModal = FALSE
  /\ clock = 0
  /\ toast = NoToast
  /\ download = NoFile
  /\ lastOp = "mount"

InitOf(k, d) == InitFrom(k, d, MockOf(k), {})

(* ------------------------------ handlers ------------------------------ *)
\* useEffect(() => setTimeout(() => setIsLoading(false), 600 | 800), [])
LoadingDone ==
  /\ Settled
  /\ isLoading
  /\ isLoading' = FALSE
  /\ toast' = NoToast
  /\ lastOp' = "loaded"
  /\ UNCHANGED <<crud, kind, device, items, searchQuery, inputText, pendingSearch,
                 statusFilter, categoryFilter, currentPage, selectedIds,
                 sortColumn, sortDirection, showDialog, isBusy, timers>>
  /\ download' = NoFile
  /\ Render

\* useDeviceType() reports another viewport class.
ViewportChange(d) ==
  /\ Settled
  /\ d # device
  /\ device' = d
  /\ toast' = NoToast
  /\ lastOp' = "viewport"
  /\ UNCHANGED <<crud, kind, items, searchQuery, inputText, pendingSearch,
                 statusFilter, categoryFilter, currentPage, selectedIds,
                 sortColumn, sortDirection, isLoading, showDialog, isBusy,
                 timers>>
  /\ download' = NoFile
  /\ Render

\* One edit of the search box: a character typed or deleted at the end.
IsEdit(t, u) ==
  \/ Len(u) = Len(t) + 1 /\ SubSeq(u, 1, Len(t)) = t
  \/ Len(t) = Len(u) + 1 /\ SubSeq(t, 1, Len(u)) = u

\* What the search box shows: Products.tsx passes value={searchQuery}, the
\* other pages leave the input uncontrolled.
Displayed == IF kind = ProductsCrud THEN searchQuery ELSE inputText

\* setTimeout per call, without clearing the timer of the call before.
scheduleWithoutCancel(pending, value) == Append(pending, value)

\* A call of the debounced function while `pending` waits: lodash clears the
\* timer of the pending invocation and starts one for the new arguments.
debounce(pending, value) == <<value>>

\* onChange={(e) => handleSearch(e.target.value)}
Keystroke(text) ==
  /\ Interactive
  /\ kind \in DebouncedKinds
  /\ IsEdit(Displayed, text)
  /\ inputText' = text
  /\ pendingSearch' = debounce(pendingSearch, text)
  /\ toast' = NoToast
  /\ lastOp' = "keystroke"
  /\ UNCHANGED <<crud, kind, device, items, searchQuery, statusFilter,
                 categoryFilter, currentPage, selectedIds, sortColumn,
                 sortDirection, isLoading, showDialog, isBusy, timers>>
  /\ download' = NoFile
  /\ Render

\* A filter change that leaves the selection as it is.
SelectionKept(k, ids) == ids

\* The selection after a change of the applied filter:
\* setSelectedIds(new Set()) on the pages that have a selection.
SelectionAfterFilter(k, ids) == IF k \in BulkKinds THEN {} ELSE ids

\* The debounced callback, 300 ms after the last keystroke.
DebounceFire ==
  /\ Settled
  /\ pendingSearch # <<>>
  /\ searchQuery' = Head(pendingSearch)
  /\ currentPage' = 1
  /\ selectedIds' = SelectionAfterFilter(kind, selectedIds)
  /\ pendingSearch' = Tail(pendingSearch)
  /\ toast' = NoToast
  /\ lastOp' = "search"
  /\ UNCHANGED <<crud, kind, device, items, inputText, statusFilter, categoryFilter,
                 sortColumn, sortDirection, isLoading, showDialog, isBusy,
                 timers>>
  /\ download' = NoFile
  /\ Render

\* Customers.tsx: onChange={(e) => setSearchQuery(e.target.value)}
DirectSearch(text) ==
  /\ Interactive
  /\ kind = CustomersBasic
  /\ IsEdit(searchQuery, text)
  /\ searchQuery' = text
  /\ inputText' = text
  /\ toast' = NoToast
  /\ lastOp' = "search"
  /\ UNCHANGED <<crud, kind, device, items, pendingSearch, statusFilter,
                 categoryFilter, currentPage, selectedIds, sortColumn,
                 sortDirection, isLoading, showDialog, isBusy, timers>>
  /\ download' = NoFile
  /\ Render

STATUS_OPTIONS(k) ==
  IF k \in OrderKinds
  THEN {"all", "pending", "processing", "shipped", "delivered", "cancelled"}
  ELSE IF k = ProductsBulk THEN {}
  ELSE {"all", "active", "inactive"}

\* The status Select's onValueChange.
StatusChange(v) ==
  /\ Interactive
  /\ v \in STATUS_OPTIONS(kind)
  /\ v # statusFilter
  /\ statusFilter' = v
  /\ currentPage' = IF kind = CustomersBasic THEN currentPage ELSE 1
  /\ selectedIds' = SelectionAfterFilter(kind, selectedIds)
  /\ toast' = NoToast
  /\ lastOp' = "status"
  /\ UNCHANGED <<crud, kind, device, items, searchQuery, inputText, pendingSearch,
                 categoryFilter, sortColumn, sortDirection, isLoading,
                 showDialog, isBusy, timers>>
  /\ download' = NoFile
  /\ Render

\* The sort headers are part of the table view, not of the mobile cards.
TableShown == ~isLoading /\ device # "mobile"

\* A header click that flips the direction whatever the column.
ToggleDirection(cur, dir, column) == IF dir = "asc" THEN "desc" ELSE "asc"

\* setSortDirection((prev) => sortColumn === column && prev === "asc" ? "desc" : "asc")
NextDirection(cur, dir, column) ==
  IF cur = column /\ dir = "asc" THEN "desc" ELSE "asc"

handleSort(column) ==
  /\ Interactive
  /\ TableShown
  /\ column \in SORTABLE_COLUMNS(kind)
  /\ sortColumn' = column
  /\ sortDirection' = NextDirection(sortColumn, sortDirection, column)
  /\ currentPage' = 1
  /\ toast' = NoToast
  /\ lastOp' = "sort"
  /\ UNCHANGED <<crud, kind, device, items, searchQuery, inputText, pendingSearch,
                 statusFilter, categoryFilter, selectedIds, isLoading,
                 showDialog, isBusy, timers>>
  /\ download' = NoFile
  /\ Render

\* The pagination footer is rendered when !isLoading && totalPages > 1.
PaginationShown == ~isLoading /\ totalPages > 1

SetPage(p, op) ==
  /\ currentPage' = p
  /\ toast' = NoToast
  /\ lastOp' = op
  /\ UNCHANGED <<crud, kind, device, items, searchQuery, inputText, pendingSearch,
                 statusFilter, categoryFilter, selectedIds, sortColumn,
                 sortDirection, isLoading, showDialog, isBusy, timers>>
  /\ download' = NoFile
  /\ Render

PreviousPage ==
  /\ Interactive /\ PaginationShown
  /\ currentPage > 1
  /\ SetPage(currentPage - 1, "page")

NextPage ==
  /\ Interactive /\ PaginationShown
  /\ currentPage < totalPages
  /\ SetPage(currentPage + 1, "page")

Abs(n) == IF n < 0 THEN -n ELSE n

\* A numbered link: page 1, the last page, and the pages near the current one.
shouldShow(page) ==
  IF kind = CustomersBasic
  THEN \/ device = "desktop"
       \/ ~(page - 1 > 0 /\ page - 1 < totalPages - 1 /\ page - 1 # currentPage - 1)
  ELSE \/ page = 1
       \/ page = totalPages
       \/ page = currentPage
       \/ Abs(page - currentPage) <=
            (IF kind \in {OrdersBulk, ProductsBulk}
             THEN (IF device = "mobile" THEN 1 ELSE 2)
             ELSE (IF device \in {"mobile", "tablet"} THEN 1 ELSE 2))

PageLink(page) ==
  /\ Interactive /\ PaginationShown
  /\ page \in 1..totalPages
  /\ shouldShow(page)
  /\ page # currentPage
  /\ SetPage(page, "page")

\* if (currentPage > totalPages && totalPages > 0) setCurrentPage(totalPages)
PageClampEffect ==
  /\ ClampPending
  /\ SetPage(totalPages, "clamp")

(* ------------------------ selection and bulk -------------------------- *)
\* The handler without the "all" branch: every id is added or deleted.
SelectResultLiteral(prev, paginated, id, checked) ==
  IF checked THEN prev \cup {id} ELSE prev \ {id}

\* The "all" branch taking back only the ids of the page.
SelectResultPageOnly(prev, paginated, id, checked) ==
  IF id = "all"
  THEN (IF checked THEN prev \cup IdsOf(paginated) ELSE prev \ IdsOf(paginated))
  ELSE (IF checked THEN prev \cup {id} ELSE prev \ {id})

\* handleSelectOrder / handleSelectProduct / handleSelectCustomer on a copy
\* of the previous set; `paginated` is the page the callback closed over.
SelectResult(prev, paginated, id, checked) ==
  IF id = "all"
  THEN (IF checked THEN prev \cup IdsOf(paginated) ELSE {})
  ELSE (IF checked THEN prev \cup {id} ELSE prev \ {id})

handleSelect(id, checked) ==
  /\ Interactive
  /\ kind \in BulkKinds
  /\ ~isLoading
  /\ selectedIds' = SelectResult(selectedIds, rows, id, checked)
  /\ toast' = NoToast
  /\ lastOp' = IF id # "all" THEN "select"
               ELSE IF checked THEN "selectAll"
               ELSE IF selectedIds \subseteq IdsOf(rows) THEN "clearAll"
               ELSE "clearAllOffPage"
  /\ UNCHANGED <<crud, kind, device, items, searchQuery, inputText, pendingSearch,
                 statusFilter, categoryFilter, currentPage, sortColumn,
                 sortDirection, isLoading, showDialog, isBusy, timers>>
  /\ download' = NoFile
  /\ Render

\* A row's checkbox shows selectedIds.has(id); clicking it reports the opposite.
ToggleRow(id) ==
  /\ id \in IdsOf(rows)
  /\ handleSelect(id, id \notin selectedIds)

\* checked={selectedIds.size === orders.length && orders.length > 0}
HeaderChecked == Cardinality(selectedIds) = Len(rows) /\ Len(rows) > 0

ToggleAll ==
  /\ device # "mobile"
  /\ handleSelect("all", ~HeaderChecked)

\* handleCancelOrder / handleDeleteProduct / handleDeleteCustomer of the bulk
\* pages: a notification, and the row leaves the selection.
handleRowRemove(id) ==
  /\ Interactive
  /\ kind \in BulkKinds
  /\ ~isLoading
  /\ id \in IdsOf(rows)
  /\ selectedIds' = selectedIds \ {id}
  /\ toast' = [level |-> "success", count |-> 1]
  /\ lastOp' = "rowRemove"
  /\ UNCHANGED <<crud, kind, device, items, searchQuery, inputText, pendingSearch,
                 statusFilter, categoryFilter, currentPage, sortColumn,
                 sortDirection, isLoading, showDialog, isBusy, timers>>
  /\ download' = NoFile
  /\ Render

\* <BulkActions> is rendered when selectedIds.size > 0; its buttons are
\* disabled while isCancelling / isDeleting.
BulkActionsEnabled == selectedIds # {} /\ ~isBusy

\* A handler without its check of the selection.
NeverEmpty(ids) == FALSE

\* if (selectedIds.size === 0) { toast.error(...); return; }
EmptySelection(ids) == Cardinality(ids) = 0

\* handleBulkCancel / handleBulkDelete, whoever calls it.
handleBulkCancel ==
  /\ Interactive
  /\ kind \in BulkKinds
  /\ IF EmptySelection(selectedIds)
     THEN /\ toast' = [level |-> "error", count |-> 0]
          /\ showDialog' = showDialog
     ELSE /\ toast' = NoToast
          /\ showDialog' = TRUE
  /\ lastOp' = "bulk"
  /\ UNCHANGED <<crud, kind, device, items, searchQuery, inputText, pendingSearch,
                 statusFilter, categoryFilter, currentPage, selectedIds,
                 sortColumn, sortDirection, isLoading, isBusy, timers>>
  /\ download' = NoFile
  /\ Render

\* The Cancel / Delete button of <BulkActions>.
handleBulk ==
  /\ BulkActionsEnabled
  /\ handleBulkCancel

\* Pages with a CSV export.
ExportKinds == BulkKinds \cup {ProductsCrud}

\* The records taken from the list on screen instead of the collection.
SelectedShown(src, shown, ids) == SelectSeq(shown, LAMBDA r : r.id \in ids)

\* orders.filter((o) => selectedIds.has(o.id))
SelectedOf(src, shown, ids) == SelectSeq(src, LAMBDA r : r.id \in ids)

\* The records the export writes: the selected ones of the collection, or,
\* in Products.tsx, the filtered list.
ExportRecords ==
  IF kind = ProductsCrud THEN filtered
  ELSE SelectedOf(items, filtered, selectedIds)

\* The count in the success notification.
ExportCount ==
  IF kind = ProductsCrud THEN Len(filtered) ELSE Cardinality(selectedIds)

\* An export whose save step is outside the try block.
SaveUnguarded == FALSE

\* try { ... link.click(); toast.success(...) } catch (error) { toast.error(...) }
SaveInsideTry == TRUE

\* handleExportOrders / handleExportProducts / handleExportCustomers, whoever
\* calls it; saveThrows: Blob, URL.createObjectURL or link.click() throws.
handleExport(saveThrows) ==
  /\ Interactive
  /\ kind \in ExportKinds
  /\ IF kind \in BulkKinds /\ EmptySelection(selectedIds)
     THEN /\ toast' = [level |-> "error", count |-> 0]
          /\ download' = NoFile
          /\ lastOp' = "export"
     ELSE IF saveThrows
     THEN /\ toast' = IF SaveInsideTry THEN [level |-> "error", count |-> 0]
                      ELSE NoToast
          /\ download' = NoFile
          /\ lastOp' = IF SaveInsideTry THEN "export" ELSE "uncaught"
     ELSE /\ toast' = [level |-> "success", count |-> ExportCount]
          /\ download' = csvContent(kind, ExportRecords)
          /\ lastOp' = "export"
  /\ UNCHANGED <<crud, kind, device, items, searchQuery, inputText, pendingSearch,
                 statusFilter, categoryFilter, currentPage, selectedIds,
                 sortColumn, sortDirection, isLoading, showDialog, isBusy,
                 timers>>
  /\ Render

\* <AlertDialogCancel disabled={isCancelling}> -> onOpenChange(false)
DismissDialog ==
  /\ Settled
  /\ showDialog
  /\ ~isBusy
  /\ showDialog' = FALSE
  /\ toast' = NoToast
  /\ lastOp' = "dismiss"
  /\ UNCHANGED <<crud, kind, device, items, searchQuery, inputText, pendingSearch,
                 statusFilter, categoryFilter, currentPage, selectedIds,
                 sortColumn, sortDirection, isLoading, isBusy, timers>>
  /\ download' = NoFile
  /\ Render

\* The confirm button without its disabled attribute.
ConfirmWhileOpen == showDialog

\* confirmBulkCancel / confirmBulkDelete behind
\* <AlertDialogAction disabled={isCancelling}>: the timer's closure holds the
\* selection of the render the handler belongs to.
ConfirmEnabled == showDialog /\ ~isBusy

confirmBulk ==
  /\ Settled
  /\ ConfirmEnabled
  /\ isBusy' = TRUE
  /\ timers' = Append(timers, [count |-> Cardinality(selectedIds)])
  /\ toast' = NoToast
  /\ lastOp' = "confirm"
  /\ UNCHANGED <<crud, kind, device, items, searchQuery, inputText, pendingSearch,
                 statusFilter, categoryFilter, currentPage, selectedIds,
                 sortColumn, sortDirection, isLoading, showDialog>>
  /\ download' = NoFile
  /\ Render

\* A timer cleared before its callback runs.
BulkTimerCleared ==
  /\ Settled
  /\ timers # <<>>
  /\ timers' = Tail(timers)
  /\ toast' = NoToast
  /\ lastOp' = "bulkDone"
  /\ UNCHANGED <<crud, kind, device, items, searchQuery, inputText, pendingSearch,
                 statusFilter, categoryFilter, currentPage, selectedIds,
                 sortColumn, sortDirection, isLoading, showDialog, isBusy>>
  /\ download' = NoFile
  /\ Render

\* A completion that takes the selected records out of the collection.
RemoveSelected(src, ids) == SelectSeq(src, LAMBDA r : r.id \notin ids)

\* The collection after the completion: the callback calls no setOrders /
\* setProducts / setCustomers.
AfterBulk(src, ids) == src

\* The setTimeout callback of confirmBulkCancel / confirmBulkDelete.
BulkTimerFire ==
  /\ Settled
  /\ timers # <<>>
  /\ toast' = [level |-> "success", count |-> Head(timers).count]
  /\ selectedIds' = {}
  /\ isBusy' = FALSE
  /\ showDialog' = FALSE
  /\ timers' = Tail(timers)
  /\ items' = AfterBulk(items, selectedIds)
  /\ lastOp' = "bulkDone"
  /\ UNCHANGED <<crud, kind, device, searchQuery, inputText, pendingSearch,
                 statusFilter, categoryFilter, currentPage, sortColumn,
                 sortDirection, isLoading>>
  /\ download' = NoFile
  /\ Render

(* --------------------- Products.tsx: delete and save ------------------ *)
\* Number of changes (deletions and saves) made to the product list; a
\* change is counted when made, and no dialog is opened once the number is
\* reached.
MaxSaves == 1

\* Buttons of a row or card of the list.
ListShown == ~isLoading

\* handleDeleteProduct: open the delete confirmation for a row.
handleDeleteProduct(p) ==
  /\ Interactive
  /\ kind = ProductsCrud
  /\ clock < MaxSaves
  /\ ListShown
  /\ \E i \in 1..Len(rows) : rows[i] = p
  /\ deleteProduct' = <<p>>
  /\ toast' = NoToast
  /\ lastOp' = "askDelete"
  /\ UNCHANGED <<kind, device, items, searchQuery, inputText, pendingSearch,
                 statusFilter, categoryFilter, currentPage, selectedIds,
                 sortColumn, sortDirection, isLoading, showDialog, isBusy,
                 timers, editProduct, showAddModal, clock>>
  /\ download' = NoFile
  /\ Render

\* DeleteConfirmDialog onClose
closeDeleteDialog ==
  /\ Settled
  /\ deleteProduct # <<>>
  /\ deleteProduct' = <<>>
  /\ toast' = NoToast
  /\ lastOp' = "closeDelete"
  /\ UNCHANGED <<kind, device, items, searchQuery, inputText, pendingSearch,
                 statusFilter, categoryFilter, currentPage, selectedIds,
                 sortColumn, sortDirection, isLoading, showDialog, isBusy,
                 timers, editProduct, showAddModal, clock>>
  /\ download' = NoFile
  /\ Render

\* prev.filter((p) => p.id !== deleteProduct.id)
WithoutId(seq, id) == SelectSeq(seq, LAMBDA r : r.id # id)

confirmDeleteProduct ==
  /\ Settled
  /\ deleteProduct # <<>>
  /\ clock < MaxSaves
  /\ clock' = clock + 1
  /\ items' = WithoutId(items, deleteProduct[1].id)
  /\ deleteProduct' = <<>>
  /\ toast' = [level |-> "success", count |-> 1]
  /\ lastOp' = "delete"
  /\ UNCHANGED <<kind, device, searchQuery, inputText, pendingSearch,
                 statusFilter, categoryFilter, currentPage, selectedIds,
                 sortColumn, sortDirection, isLoading, showDialog, isBusy,
                 timers, editProduct, showAddModal>>
  /\ download' = NoFile
  /\ Render

\* handleEditProduct / handleAddProduct: open the form modal.
openForm(p) ==
  /\ Interactive
  /\ kind = ProductsCrud
  /\ clock < MaxSaves
  /\ IF p = <<>>
     THEN showAddModal' = TRUE /\ editProduct' = editProduct
     ELSE /\ ListShown
          /\ \E i \in 1..Len(rows) : rows[i] = p[1]
          /\ editProduct' = p
          /\ showAddModal' = showAddModal
  /\ toast' = NoToast
  /\ lastOp' = "openForm"
  /\ UNCHANGED <<kind, device, items, searchQuery, inputText, pendingSearch,
                 statusFilter, categoryFilter, currentPage, selectedIds,
                 sortColumn, sortDirection, isLoading, showDialog, isBusy,
                 timers, deleteProduct, clock>>
  /\ download' = NoFile
  /\ Render

\* ProductFormModal onClose
closeForm ==
  /\ Settled
  /\ showAddModal \/ editProduct # <<>>
  /\ showAddModal' = FALSE
  /\ editProduct' = <<>>
  /\ toast' = NoToast
  /\ lastOp' = "closeForm"
  /\ UNCHANGED <<kind, device, items, searchQuery, inputText, pendingSearch,
                 statusFilter, categoryFilter, currentPage, selectedIds,
                 sortColumn, sortDirection, isLoading, showDialog, isBusy,
                 timers, deleteProduct, clock>>
  /\ download' = NoFile
  /\ Render

\* The form's initial data: the edited product, or the blank product.
BlankProduct ==
  [id |-> <<>>, name |-> <<>>, text |-> <<>>, category |-> <<>>,
   status |-> "active", amount |-> 0, count |-> 0, date |-> 0]

FormBase == IF editProduct # <<>> THEN editProduct[1] ELSE BlankProduct

\* What the user leaves in the form: name and category cleared, or typed.
FormData ==
  {[FormBase EXCEPT !.name = n, !.category = n] : n \in {<<>>, <<"a">>}}

\* prev.some(...) ? prev.map(replace) : [...prev, updatedProduct]
handleSaveProduct(prev, updated) ==
  IF \E i \in 1..Len(prev) : prev[i].id = updated.id
  THEN [i \in 1..Len(prev) |-> IF prev[i].id = updated.id THEN updated ELSE prev[i]]
  ELSE Append(prev, updated)

\* handleSubmit of the form: validate, onSave, onClose.
submitForm(formData) ==
  /\ Settled
  /\ showAddModal \/ editProduct # <<>>
  /\ formData \in FormData
  /\ IF formData.name = <<>> \/ formData.category = <<>>
        \/ formData.amount < 0 \/ formData.count < 0
     THEN /\ toast' = [level |-> "error", count |-> 0]
          /\ UNCHANGED <<items, showAddModal, editProduct, clock>>
     ELSE /\ clock < MaxSaves
          /\ clock' = clock + 1
          /\ items' = handleSaveProduct(items,
                        [formData EXCEPT
                           !.id = IF formData.id # <<>> THEN formData.id
                                  ELSE <<"n", Digit(clock + 1)>>,
                           !.date = MockLen + 1 + clock + 1])
          /\ toast' = [level |-> "success", count |-> 1]
          /\ showAddModal' = FALSE
          /\ editProduct' = <<>>
  /\ lastOp' = "save"
  /\ UNCHANGED <<kind, device, searchQuery, inputText, pendingSearch,
                 statusFilter, categoryFilter, currentPage, selectedIds,
                 sortColumn, sortDirection, isLoading, showDialog, isBusy,
                 timers, deleteProduct>>
  /\ download' = NoFile
  /\ Render

\* ["all", ...new Set(products.map((p) => p.category))]
categories == {All} \cup {items[i].category : i \in 1..Len(items)}

\* The category Select's onValueChange.
CategoryChange(v) ==
  /\ Interactive
  /\ kind = ProductsCrud
  /\ v \in categories
  /\ v # categoryFilter
  /\ categoryFilter' = v
  /\ currentPage' = 1
  /\ toast' = NoToast
  /\ lastOp' = "category"
  /\ UNCHANGED <<crud, kind, device, items, searchQuery, inputText,
                 pendingSearch, statusFilter, selectedIds, sortColumn,
                 sortDirection, isLoading, showDialog, isBusy, timers>>
  /\ download' = NoFile
  /\ Render

handleResetFilters ==
  /\ Interactive
  /\ kind = ProductsCrud
  /\ searchQuery' = <<>>
  /\ statusFilter' = "all"
  /\ categoryFilter' = All
  /\ currentPage' = 1
  /\ toast' = [level |-> "info", count |-> 0]
  /\ lastOp' = "reset"
  /\ UNCHANGED <<crud, kind, device, items, inputText, pendingSearch,
                 selectedIds, sortColumn, sortDirection, isLoading, showDialog,
                 isBusy, timers>>
  /\ download' = NoFile
  /\ Render

(* --------------------------- specifications --------------------------- *)
\* The options the user picks in the status Select, and the header clicked.
StatusInputs(k) ==
  IF k \in OrderKinds THEN {"all", "pending"}
  ELSE IF k = ProductsCrud THEN {"all", "inactive"}
  ELSE IF k = ProductsBulk THEN {}
  ELSE {"all", "inactive"}

CategoryInputs == {All, <<"c">>}

\* The options tried where products are deleted and saved: 'b' is the
\* category of a single mock product.
ListCategories == {All, <<"b">>}

\* The texts the user brings the search box to, one character at a time.
Texts == {<<>>, <<"B">>, <<"B", "a">>}
ListTexts(k) == IF k = ProductsCrud THEN {<<>>, <<"B">>, <<"a">>} ELSE Texts

SortInputs(k) ==
  IF k \in OrderKinds THEN {"customerName", "createdAt"}
  ELSE IF k = ProductsCrud THEN {"lastUpdated"}
  ELSE IF k = ProductsBulk THEN {"name", "price"}
  ELSE IF k = CustomersBulk THEN {"name", "totalOrders"}
  ELSE {}

\* The bulk-action pages: Orders.tsx (first component), part_003, part_002.
Init == \E k \in BulkKinds : \E d \in Devices : InitOf(k, d)

Next ==
  \/ LoadingDone
  \/ \E d \in Devices : ViewportChange(d)
  \/ \E t \in Texts : Keystroke(t)
  \/ DebounceFire
  \/ \E v \in StatusInputs(kind) : StatusChange(v)
  \/ \E c \in SortInputs(kind) : handleSort(c)
  \/ PreviousPage
  \/ NextPage
  \/ \E p \in 1..MockLen : PageLink(p)
  \/ PageClampEffect
  \/ \E id \in IdsOf(rows) : ToggleRow(id)
  \/ ToggleAll
  \/ \E id \in IdsOf(rows) : handleRowRemove(id)
  \/ handleBulk
  \/ DismissDialog
  \/ confirmBulk
  \/ BulkTimerFire

Spec == Init /\ [][Next]_vars

\* The bulk timer (setTimeout, 800 ms / 1000 ms) is never cleared and fires
\* whenever it is due; React runs a pending effect before anything else.
FairSpec == Spec /\ WF_vars(PageClampEffect) /\ SF_vars(BulkTimerFire)

\* Every list page, as far as search, filter, sort and pagination go.
InitList == \E k \in AllKinds : \E d \in Devices : InitOf(k, d)

NextList ==
  \/ LoadingDone
  \/ \E d \in Devices : ViewportChange(d)
  \/ \E t \in ListTexts(kind) : Keystroke(t)
  \/ DebounceFire
  \/ \E t \in ListTexts(kind) : DirectSearch(t)
  \/ \E v \in StatusInputs(kind) : StatusChange(v)
  \/ \E c \in SortInputs(kind) : handleSort(c)
  \/ PreviousPage
  \/ NextPage
  \/ \E p \in 1..MockLen + MaxSaves : PageLink(p)
  \/ PageClampEffect
  \/ \E i \in 1..Len(rows) : handleDeleteProduct(rows[i])
  \/ closeDeleteDialog
  \/ confirmDeleteProduct
  \/ openForm(<<>>)
  \/ \E i \in 1..Len(rows) : openForm(<<rows[i]>>)
  \/ closeForm
  \/ \E f \in FormData : submitForm(f)
  \/ \E v \in ListCategories : CategoryChange(v)
  \/ handleResetFilters

SpecList == InitList /\ [][NextList]_vars

\* The toolbar handlers (export, bulk cancel / delete) called in any state of
\* the page that takes input, over search, filter, sort, paging and selection.
InitExport == \E k \in ExportKinds : InitOf(k, "tablet")

NextExport ==
  \/ LoadingDone
  \/ \E t \in ListTexts(kind) : Keystroke(t)
  \/ DebounceFire
  \/ \E v \in StatusInputs(kind) : StatusChange(v)
  \/ \E v \in CategoryInputs : CategoryChange(v)
  \/ \E c \in SortInputs(kind) : handleSort(c)
  \/ PreviousPage
  \/ NextPage
  \/ \E id \in IdsOf(rows) : ToggleRow(id)
  \/ ToggleAll
  \/ \E saveThrows \in BOOLEAN : handleExport(saveThrows)
  \/ handleBulkCancel
  \/ DismissDialog
  \/ \E id \in IdsOf(rows) : handleRowRemove(id)
  \/ confirmBulk
  \/ BulkTimerFire

SpecExport == InitExport /\ [][NextExport]_vars

\* The export on its own: one or two selected records whose text fields hold
\* plain characters, a comma, a quote, or both, and a small or a large amount.
FieldValues == {<<"a">>, <<"a", Comma, "b">>, <<"a", Quote, "b">>, <<Quote, Comma>>}

AmountValues == {2, 1500}

CsvRecords(k) ==
  IF k \in OrderKinds
  THEN {[mockOrders[1] EXCEPT !.name = n, !.amount = a] :
          n \in FieldValues, a \in AmountValues}
  ELSE IF k \in CustomerKinds
  THEN {[mockCustomers[1] EXCEPT !.name = n, !.text = t, !.amount = a] :
          n \in FieldValues, t \in FieldValues, a \in AmountValues}
  ELSE {[mockProducts[1] EXCEPT !.name = n, !.text = t, !.category = c] :
          n \in FieldValues, t \in FieldValues, c \in FieldValues}

InitCsv ==
  \E k \in ExportKinds : \E r \in CsvRecords(k) :
    \E src \in {<<r>>, <<r, MockOf(k)[2]>>} :
      InitFrom(k, "desktop", src, IdsOf(src))

NextCsv == \E saveThrows \in BOOLEAN : handleExport(saveThrows)

SpecCsv == InitCsv /\ [][NextCsv]_vars

\* The sort step on its own: the filter's result for any prefix of a mock
\* collection, and any sortable column and direction.
SortQueries == {<<>>, <<"B">>}

InitSort ==
  \E k \in AllKinds \ {CustomersBasic} : \E n \in 0..MockLen :
    \E q \in SortQueries : \E col \in SORTABLE_COLUMNS(k) :
      \E dir \in {"asc", "desc"} :
        /\ kind = k
        /\ device = "desktop"
        /\ items = SubSeq(MockOf(k), 1, n)
        /\ searchQuery = q
        /\ inputText = q
        /\ pendingSearch = NoPending
        /\ statusFilter = "all"
        /\ categoryFilter = All
        /\ currentPage = 1
        /\ selectedIds = {}
        /\ sortColumn = col
        /\ sortDirection = dir
        /\ isLoading = FALSE
        /\ showDialog = FALSE
        /\ isBusy = FALSE
        /\ timers = <<>>
        /\ filtered = FilterStep(k, SubSeq(MockOf(k), 1, n), q, "all", All)
        /\ rows = <<>>
        /\ deleteProduct = <<>>
        /\ editProduct = <<>>
        /\ showAddModal = FALSE
        /\ clock = 0
        /\ toast = NoToast
        /\ download = NoFile
        /\ lastOp = "filter"

\* result = [...result].sort((a, b) => ...)
ApplySort ==
  /\ lastOp = "filter"
  /\ filtered' = SortStep(kind, filtered, sortColumn, sortDirection)
  /\ lastOp' = "sorted"
  /\ UNCHANGED <<crud, kind, device, items, searchQuery, inputText, pendingSearch,
                 statusFilter, categoryFilter, currentPage, selectedIds,
                 sortColumn, sortDirection, isLoading, showDialog, isBusy,
                 timers, rows, toast, download>>

SpecSort == InitSort /\ [][ApplySort]_vars

\* The filter step on its own: any prefix of a mock collection, any query
\* and any option of the status and category Selects.
QueryInputs ==
  {<<>>, <<"a">>, <<"B">>, <<"c">>, <<"1">>, <<"A", "b">>, <<"b", "a">>,
   <<"o", "-", "1">>}

CategoryOptions(k) ==
  IF k = ProductsCrud THEN {All, <<"a">>, <<"b">>, <<"c">>} ELSE {All}

InitFilter ==
  \E k \in AllKinds : \E n \in 0..MockLen : \E q \in QueryInputs :
    \E sf \in STATUS_OPTIONS(k) \cup {"all"} : \E cf \in CategoryOptions(k) :
      /\ kind = k
      /\ device = "desktop"
      /\ items = SubSeq(MockOf(k), 1, n)
      /\ searchQuery = q
      /\ inputText = q
      /\ pendingSearch = NoPending
      /\ statusFilter = sf
      /\ categoryFilter = cf
      /\ currentPage = 1
      /\ selectedIds = {}
      /\ sortColumn = "none"
      /\ sortDirection = "asc"
      /\ isLoading = FALSE
      /\ showDialog = FALSE
      /\ isBusy = FALSE
      /\ timers = <<>>
      /\ filtered = <<>>
      /\ rows = <<>>
      /\ deleteProduct = <<>>
      /\ editProduct = <<>>
      /\ showAddModal = FALSE
      /\ clock = 0
      /\ toast = NoToast
      /\ download = NoFile
      /\ lastOp = "mount"

\* orders.filter(...) / products.filter(...) / customers.filter(...)
ApplyFilter ==
  /\ lastOp = "mount"
  /\ filtered' = FilterStep(kind, items, searchQuery, statusFilter, categoryFilter)
  /\ lastOp' = "filter"
  /\ UNCHANGED <<crud, kind, device, items, searchQuery, inputText, pendingSearch,
                 statusFilter, categoryFilter, currentPage, selectedIds,
                 sortColumn, sortDirection, isLoading, showDialog, isBusy,
                 timers, rows, toast, download>>

SpecFilter == InitFilter /\ [][ApplyFilter]_vars

(* -------------------------- filter properties ------------------------- *)
\* q occurs in s as a run of consecutive characters.
IsSubstring(s, q) ==
  \E i \in 0..(Len(s) - Len(q)) : SubSeq(s, i + 1, i + Len(q)) = q

\* The fields the search box looks at.
SearchFields(k, r) ==
  IF k \in OrderKinds THEN {r.id, r.name}
  ELSE IF k \in CustomerKinds THEN {r.name, r.text}
  ELSE {r.name, r.text, r.category}

Keeps(k, r, q, sf, cf) ==
  /\ \E f \in SearchFields(k, r) : IsSubstring(toLowerCase(f), toLowerCase(q))
  /\ sf = "all" \/ StatusOf(k, r) = sf
  /\ cf = All \/ r.category = cf

\* C2: the filter step returns exactly the records whose lower-cased
\* searchable fields contain the lower-cased query (an empty query matches
\* every record) and whose status and category equal the chosen filter unless
\* it is 'all'; the records come in source order and the source collection is
\* left as it was.
C2_FilterExact ==
  lastOp = "filter" =>
    LET keep == {i \in 1..Len(items) :
                   Keeps(kind, items[i], searchQuery, statusFilter, categoryFilter)}
    IN /\ Len(filtered) = Cardinality(keep)
       /\ \A j \in 1..Len(filtered) :
            \E i \in keep : /\ filtered[j] = items[i]
                             /\ Cardinality({m \in keep : m <= i}) = j
       /\ items = SubSeq(MockOf(kind), 1, Len(items))

\* An empty query with status filter 'cancelled' over the whole collection.
C2_Witness ==
  /\ lastOp = "filter"
  /\ kind \in OrderKinds
  /\ searchQuery = <<>>
  /\ statusFilter = "cancelled"
  /\ Len(items) = MockLen
  /\ Len(filtered) = Cardinality({i \in 1..MockLen : items[i].status = "cancelled"})
  /\ filtered # <<>>

(* ------------------- selection and bulk properties -------------------- *)
\* C3: on the pages with a selection set, every identifier in the selection
\* set is the id of a record of the source collection, whatever sequence of
\* selections, select-all toggles, searches, filter changes, sorts, page
\* changes, row removals and bulk actions led to the state.
C3_SelectionWithinSource ==
  kind \in BulkKinds => selectedIds \subseteq IdsOf(items)

\* After a row action, a selection that reaches beyond the current page.
C3_Witness ==
  /\ lastOp = "rowRemove"
  /\ Cardinality(selectedIds) >= 2
  /\ \E id \in selectedIds : id \notin IdsOf(rows)

SelectAllStep ==
  /\ handleSelect("all", TRUE) =>
       /\ IdsOf(rows) \subseteq selectedIds'
       /\ selectedIds \subseteq selectedIds'
       /\ selectedIds' \subseteq selectedIds \cup IdsOf(rows)
  /\ handleSelect("all", FALSE) => selectedIds' = {}

\* C4: select-all, when checked, adds the id of every row of the current
\* page and removes none; when unchecked, it leaves the selection set empty,
\* the ids outside the current page included.
C4_SelectAll ==
  [][SelectAllStep]_vars

\* Select-all was unchecked while ids outside the current page were selected.
C4_Witness ==
  /\ lastOp = "clearAllOffPage"
  /\ selectedIds = {}
  /\ rows # <<>>

Idle == ~showDialog /\ ~isBusy
ConfirmPending == showDialog /\ ~isBusy
InFlight == isBusy

BulkStep ==
  /\ Len(timers') <= 1
  /\ isBusy' <=> timers' # <<>>
  /\ <<showDialog, isBusy, timers>>' # <<showDialog, isBusy, timers>> =>
       \/ /\ Idle /\ ConfirmPending'
          /\ selectedIds # {} /\ selectedIds' = selectedIds
          /\ timers' = timers
       \/ /\ ConfirmPending /\ Idle'
          /\ selectedIds' = selectedIds
          /\ timers' = timers
       \/ /\ ConfirmPending /\ InFlight'
          /\ showDialog'
          /\ timers = <<>> /\ Len(timers') = 1
       \/ /\ InFlight /\ Idle'
          /\ selectedIds' = {}
          /\ timers' = <<>>

\* C5: the bulk control flow moves only Idle -> ConfirmPending (requested
\* with a non-empty selection), ConfirmPending -> Idle (dismissed: selection
\* unchanged, no timer), ConfirmPending -> InFlight (confirmed: flag set, one
\* timer started) and InFlight -> Idle (timer: selection emptied, flag
\* cleared, dialog closed, in one step); a confirmation is never accepted
\* while InFlight, so at most one timer is pending.
C5_BulkStateMachine ==
  [][BulkStep]_vars

\* A confirmed operation in flight: flag set, dialog still open, one timer.
C5_Witness ==
  /\ lastOp = "confirm"
  /\ InFlight
  /\ showDialog
  /\ Len(timers) = 1
  /\ selectedIds # {}

\* C6: with the timer firing when due, every state with the in-flight flag
\* set is followed by a state where the flag is cleared, the dialog is closed
\* and the selection set is empty.
C6_BulkCompletes ==
  isBusy ~> (~isBusy /\ ~showDialog /\ selectedIds = {})

\* The operation has completed: success reported for the selected records.
C6_Witness ==
  /\ lastOp = "bulkDone"
  /\ Idle
  /\ selectedIds = {}
  /\ toast.level = "success"
  /\ toast.count >= 1

(* ------------------------- debounce properties ------------------------ *)
DebounceStep ==
  kind \in DebouncedKinds =>
  /\ Len(pendingSearch') <= 1
  /\ lastOp' = "keystroke" =>
       /\ searchQuery' = searchQuery
       /\ pendingSearch' = <<inputText'>>
  /\ lastOp' = "search" =>
       /\ pendingSearch = <<inputText>>
       /\ searchQuery' = inputText
       /\ pendingSearch' = <<>>
  /\ (searchQuery' # searchQuery /\ lastOp' # "reset") => lastOp' = "search"

\* C7: a keystroke leaves the applied query as it is and replaces the pending
\* invocation by one carrying its own value; the applied query changes only
\* when the debounced callback runs, which sets it to the value of the last
\* keystroke and leaves nothing pending, so a burst updates it exactly once.
C7_Debounce ==
  [][DebounceStep]_vars

\* A burst in progress: the pending value is two keystrokes away from the
\* applied query, which has not moved.
C7_Witness ==
  /\ lastOp = "keystroke"
  /\ pendingSearch = <<inputText>>
  /\ inputText # searchQuery
  /\ ~IsEdit(searchQuery, inputText)

(* ----------------------- pagination properties ------------------------ *)
\* The pipeline recomputed from the state the component holds.
Pipeline ==
  Filtered(kind, items, searchQuery, statusFilter, categoryFilter,
           sortColumn, sortDirection)

C8_PageInRange ==
  (kind \in ClampKinds /\ Settled) =>
    /\ 1 <= currentPage
    /\ currentPage <= Max(1, totalPages)
    /\ (totalPages = 0 => currentPage = 1)

\* The correction has just run after a product was deleted from the last page.
C8_Witness ==
  /\ kind = ProductsCrud
  /\ lastOp = "clamp"
  /\ Len(items) < MockLen
  /\ currentPage = totalPages
  /\ currentPage >= 2

\* C9: on the basic Customers page, after a change of the search query or of
\* the status filter the current page lies in [1, totalPages] (is 1 when
\* totalPages is 0).
C9_BasicPageClamped ==
  (kind = CustomersBasic /\ lastOp \in {"search", "status"}) =>
    /\ 1 <= currentPage
    /\ currentPage <= Max(1, totalPages)

\* The pages first..last of arr, concatenated in page order.
RECURSIVE PagesFrom(_, _, _, _)
PagesFrom(arr, size, first, last) ==
  IF first > last THEN <<>>
  ELSE Paginate(arr, first, size) \o PagesFrom(arr, size, first + 1, last)

\* C10: totalPages is ceil(filtered count / itemsPerPage), 0 for an empty
\* list; the slices of pages 1..totalPages are pairwise disjoint and their
\* concatenation in page order is the filtered collection.
C10_PagesPartition ==
  /\ (totalPages - 1) * itemsPerPage < Len(filtered)
  /\ Len(filtered) <= totalPages * itemsPerPage
  /\ (Len(filtered) = 0 => totalPages = 0)
  /\ PagesFrom(filtered, itemsPerPage, 1, totalPages) = filtered
  /\ \A p, q \in 1..totalPages :
       p # q => IdsOf(Paginate(filtered, p, itemsPerPage))
                  \cap IdsOf(Paginate(filtered, q, itemsPerPage)) = {}

\* Several pages, the last of them partly filled.
C10_Witness ==
  /\ lastOp = "page"
  /\ currentPage = totalPages
  /\ totalPages >= 2
  /\ Len(filtered) % itemsPerPage # 0
  /\ Len(Paginate(filtered, totalPages, itemsPerPage)) < itemsPerPage

(* ------------------------- export properties -------------------------- *)
\* What the toolbar handlers leave alone when they give up.
ListState ==
  <<items, searchQuery, statusFilter, categoryFilter, sortColumn,
    sortDirection, currentPage, selectedIds, filtered, rows>>

EmptyInvokeStep ==
  (kind \in BulkKinds /\ selectedIds = {} /\ lastOp' \in {"export", "bulk"}) =>
    /\ toast'.level = "error"
    /\ download' = NoFile
    /\ showDialog' = showDialog
    /\ isBusy' = isBusy
    /\ timers' = timers
    /\ ListState' = ListState

\* C11: on the pages with a selection set, the export handler and the bulk
\* cancel / delete handler called with an empty selection emit an error
\* notification and change nothing: no file is saved, the dialog is not
\* opened, no timer is started, and selection, page, filter and sort state stay.
C11_EmptySelectionRejected ==
  [][EmptyInvokeStep]_vars

\* The export handler has just refused an empty selection.
C11_Witness ==
  /\ kind \in BulkKinds
  /\ lastOp = "export"
  /\ selectedIds = {}
  /\ toast.level = "error"
  /\ download = NoFile
  /\ ~showDialog

\* C12: the export of Products.tsx, called while the filtered list is empty,
\* signals an error to the user, saves no file and reports no success.
C12_EmptyExportFails ==
  (kind = ProductsCrud /\ lastOp = "export" /\ filtered = <<>>) =>
    /\ toast.level = "error"
    /\ download = NoFile

\* The string-valued columns of a record's row: <<column, value written>>.
StringFields(k, r) ==
  IF k \in OrderKinds THEN {<<1, r.id>>, <<2, r.name>>, <<4, <<r.status>> >>}
  ELSE IF k \in CustomerKinds
  THEN {<<1, r.id>>, <<2, r.name>>, <<3, r.text>>, <<7, <<getCustomerStatus(r)>> >>}
  ELSE {<<1, r.id>>, <<2, r.name>>, <<3, r.text>>, <<4, r.category>>,
        <<7, <<r.status>> >>}

\* C13: for every exported record and every string-valued column (id, name,
\* customer name, description, category, email, status), whether the value
\* holds commas, quotes or plain characters, reading the saved CSV by the
\* standard rules gives back the value of the field exactly.
C13_CsvRoundTrip ==
  (lastOp = "export" /\ download # NoFile) =>
    LET parsed == ParseCsv(download)
    IN \A i \in 1..Len(ExportRecords) :
         \A f \in StringFields(kind, ExportRecords[i]) :
           /\ i + 1 <= Len(parsed)
           /\ f[1] <= Len(parsed[i + 1])
           /\ parsed[i + 1][f[1]] = f[2]

\* C14: the saved CSV is a table: its first row is the header, and every data
\* row, read by the standard rules, has as many fields as the header, the
\* rows with formatted dates and currency amounts included.
C14_RowsMatchHeader ==
  (lastOp = "export" /\ download # NoFile) =>
    LET parsed == ParseCsv(download)
    IN /\ parsed[1] = ExportHeader(kind)
       /\ Len(parsed) = Len(ExportRecords) + 1
       /\ \A i \in 2..Len(parsed) : Len(parsed[i]) = Len(parsed[1])

\* C15: a selection-based export writes, after the header, one data row for
\* each record of the source collection whose id is selected, none for any
\* other record and none twice, in the order of the source collection,
\* whatever the search, filter, sort and page are; the count of the success
\* notification is the number of data rows.
C15_ExportsSelection ==
  (kind \in BulkKinds /\ lastOp = "export" /\ toast.level = "success") =>
    LET parsed == ParseCsv(download)
        chosen == {i \in 1..Len(items) : items[i].id \in selectedIds}
    IN /\ Len(parsed) = Cardinality(chosen) + 1
       /\ \A j \in 2..Len(parsed) :
            \E i \in chosen : /\ parsed[j][1] = items[i].id
                               /\ Cardinality({m \in chosen : m <= i}) = j - 1
       /\ toast.count = Len(parsed) - 1

\* Two records exported from the second page of a list whose sort order puts
\* them the other way round.
C15_Witness ==
  /\ kind \in BulkKinds
  /\ lastOp = "export"
  /\ toast.level = "success"
  /\ Cardinality(selectedIds) >= 2
  /\ sortColumn # "none"
  /\ currentPage = 2
  /\ SelectedShown(items, filtered, selectedIds) # SelectedOf(items, filtered, selectedIds)

SaveThrowsStep ==
  (handleExport(TRUE) /\ ~(kind \in BulkKinds /\ selectedIds = {})) =>
    /\ toast'.level = "error"
    /\ download' = NoFile
    /\ lastOp' # "uncaught"
    /\ showDialog' = showDialog
    /\ isBusy' = isBusy
    /\ timers' = timers
    /\ ListState' = ListState

\* C16: when the file-save step of an export throws, the handler catches it:
\* an error notification and no success notification is emitted, the error
\* does not leave the handler, and selection, filter, sort and page state are
\* what they were before the export.
C16_SaveFailureCaught ==
  [][SaveThrowsStep]_vars

\* A failed export of a non-empty selection.
C16_Witness ==
  /\ kind \in BulkKinds
  /\ lastOp = "export"
  /\ selectedIds # {}
  /\ toast.level = "error"
  /\ download = NoFile

(* --------------------------- sort properties -------------------------- *)
\* The array the sort step was given: the filter's result.
SortInput == FilterStep(kind, items, searchQuery, statusFilter, categoryFilter)

\* The date column a page offers for sorting.
DateColumn(k) ==
  IF k \in OrderKinds \/ k = CustomersBulk THEN "createdAt"
  ELSE IF k = ProductsCrud THEN "lastUpdated"
  ELSE "none"

\* arr holds the records of src, each once.
IsPermutation(arr, src) ==
  /\ Len(arr) = Len(src)
  /\ \A i \in 1..Len(src) : \E j \in 1..Len(arr) : arr[j] = src[i]

\* C17: on every page that offers a date column for sorting (createdAt on
\* both Orders pages and on Customers, lastUpdated on Products), sorting by
\* that column orders the filtered records by instant, increasing for
\* ascending and decreasing for descending.
C17_DateSortChronological ==
  (lastOp = "sorted" /\ sortColumn = DateColumn(kind)) =>
    /\ IsPermutation(filtered, SortInput)
    /\ \A i, j \in 1..Len(filtered) :
         i < j => IF sortDirection = "asc"
                  THEN filtered[i].date <= filtered[j].date
                  ELSE filtered[i].date >= filtered[j].date

\* The string and number columns: every sortable column but the date column.
IsKeyColumn(k, col) == col \in SORTABLE_COLUMNS(k) /\ col # DateColumn(k)

\* The order of two keys: <= 0 when a does not come after b.
KeyCompare(col, a, b) ==
  IF TypeOfColumn(col) = "string"
  THEN localeCompare(ColumnValue(a, col), ColumnValue(b, col))
  ELSE ColumnValue(a, col) - ColumnValue(b, col)

\* The position of a record in an array that holds it once.
PositionIn(arr, r) == CHOOSE i \in 1..Len(arr) : arr[i] = r

\* C18: for a string or number column the sort step returns a permutation of
\* the filtered collection, ordered by the column in the selected direction
\* (strings by locale comparison, numbers by value), in which records with
\* equal keys keep their relative order; the source collection is as it was.
C18_SortStableOrdered ==
  (lastOp = "sorted" /\ IsKeyColumn(kind, sortColumn)) =>
    /\ IsPermutation(filtered, SortInput)
    /\ \A i, j \in 1..Len(filtered) :
         i < j =>
           /\ IF sortDirection = "asc"
              THEN KeyCompare(sortColumn, filtered[i], filtered[j]) <= 0
              ELSE KeyCompare(sortColumn, filtered[i], filtered[j]) >= 0
           /\ KeyCompare(sortColumn, filtered[i], filtered[j]) = 0 =>
                PositionIn(SortInput, filtered[i]) < PositionIn(SortInput, filtered[j])
    /\ items = SubSeq(MockOf(kind), 1, Len(items))

\* A descending sort that moved records and kept two equal keys in order.
C18_Witness ==
  /\ lastOp = "sorted"
  /\ IsKeyColumn(kind, sortColumn)
  /\ sortDirection = "desc"
  /\ filtered # SortInput
  /\ \E i, j \in 1..Len(filtered) :
       i < j /\ KeyCompare(sortColumn, filtered[i], filtered[j]) = 0

Reverse(arr) == [i \in 1..Len(arr) |-> arr[Len(arr) + 1 - i]]

\* No two records of arr have the same key in the column.
DistinctKeys(arr, col) ==
  \A i, j \in 1..Len(arr) : i # j => KeyCompare(col, arr[i], arr[j]) # 0

CharsAt(q, keep) ==
  [k \in 1..Cardinality(keep) |->
     q[CHOOSE i \in keep : Cardinality({j \in keep : j <= i}) = k]]

\* The queries obtained from q by removing characters anywhere.
Shortened(q) == {CharsAt(q, keep) : keep \in SUBSET (1..Len(q))}

\* The queries obtained from q by removing characters at its ends.
Trimmed(q) ==
  {SubSeq(q, a, b) : a \in 1..(Len(q) + 1), b \in 0..Len(q)}

\* The ids matched by query q under the status and category filter in force.
Matched(q) == IdsOf(FilterStep(kind, items, q, statusFilter, categoryFilter))

\* C20 as stated: for every source collection and fixed status / category
\* filter, every record matched by a query is matched by every query obtained
\* from it by removing characters.
C20_WideningNeverShrinks ==
  lastOp = "filter" =>
    \A q2 \in Shortened(searchQuery) : IdsOf(filtered) \subseteq Matched(q2)

\* C20, restricted: every record matched by a query is matched by every
\* query obtained from it by removing characters at its beginning and end.
C20_TrimmingNeverShrinks ==
  lastOp = "filter" =>
    \A q2 \in Trimmed(searchQuery) : IdsOf(filtered) \subseteq Matched(q2)

\* A two-character query with a match, and a shorter one that matches more.
C20_Witness ==
  /\ lastOp = "filter"
  /\ Len(searchQuery) >= 2
  /\ filtered # <<>>
  /\ \E q2 \in Trimmed(searchQuery) :
       /\ q2 # <<>>
       /\ IdsOf(filtered) # Matched(q2)
       /\ IdsOf(filtered) \subseteq Matched(q2)


\* ---------------------------------------------------------------------
\* C21
\* ---------------------------------------------------------------------

\* The operations of Selection, Exporter and the row / bulk actions.
SelectionOps ==
  {"select", "selectAll", "clearAll", "clearAllOffPage", "export", "uncaught",
   "rowRemove", "bulk", "dismiss", "confirm", "bulkDone"}

\* What such an operation leaves alone: the source collection, which is still
\* the initial one, and the whole view state (query, filters, sort, page).
SourceFrameStep ==
  (kind \in BulkKinds /\ lastOp' \in SelectionOps) =>
    /\ items = MockOf(kind)
    /\ items' = items
    /\ UNCHANGED <<kind, device, searchQuery, inputText, pendingSearch,
                   statusFilter, categoryFilter, currentPage, sortColumn,
                   sortDirection, isLoading, filtered, rows>>

\* C21: on the Orders page and the Products and Customers pages with bulk
\* actions, no selection, export, single-row delete/cancel or bulk
\* delete/cancel operation changes the source collection: its records, their
\* fields and their order stay those of the initial state, and only
\* selection, dialog and in-flight state (and the notification and the saved
\* file) change.
C21_SourceNeverMutated == [][SourceFrameStep]_vars

\* A bulk operation has completed on a non-empty selection that was made
\* under an applied status filter.
C21_Witness ==
  /\ kind \in BulkKinds
  /\ lastOp = "bulkDone"
  /\ toast.level = "success"
  /\ toast.count > 0
  /\ statusFilter # "all"
  /\ items = MockOf(kind)


\* ---------------------------------------------------------------------
\* C22
\* ---------------------------------------------------------------------

\* C22: on the pages with a selection set, in the state right after a status
\* filter change and in the state right after a debounced search fires, the
\* selection set is empty and the current page is 1.
C22_FilterChangeEmptiesSelection ==
  (kind \in BulkKinds /\ lastOp \in {"status", "search"}) =>
    /\ selectedIds = {}
    /\ currentPage = 1

\* A debounced search has just fired while the bulk dialog was open, which
\* only opens on a non-empty selection: the selection it emptied had members.
C22_Witness ==
  /\ kind \in BulkKinds
  /\ lastOp = "search"
  /\ showDialog
  /\ searchQuery # <<>>
  /\ selectedIds = {}
  /\ currentPage = 1


\* ---------------------------------------------------------------------
\* C23
\* ---------------------------------------------------------------------

\* C23: on the Orders page and the Products and Customers pages with bulk
\* actions, in every reachable state every selected id is the id of a record
\* of the current filtered collection, possibly on another page.
C23_SelectionWithinFiltered ==
  kind \in BulkKinds => selectedIds \subseteq IdsOf(filtered)

\* Under an applied query, a record is selected that is not on the current
\* page, while a further debounced search is pending.
C23_Witness ==
  /\ kind \in BulkKinds
  /\ searchQuery # <<>>
  /\ pendingSearch # <<>>
  /\ selectedIds # {}
  /\ ~(selectedIds \subseteq IdsOf(rows))
  /\ Len(filtered) < Len(items)


\* ---------------------------------------------------------------------
\* C24
\* ---------------------------------------------------------------------

\* C24: in the table view the header select-all checkbox is shown checked if
\* and only if the current page has at least one row and every row of the
\* current page is in the selection set.
C24_HeaderReflectsPage ==
  (kind \in BulkKinds /\ TableShown) =>
    (HeaderChecked <=> (Len(rows) > 0 /\ IdsOf(rows) \subseteq selectedIds))


\* ---------------------------------------------------------------------
\* C25
\* ---------------------------------------------------------------------

\* C25: a bulk delete/cancel never enters the in-flight state with an empty
\* selection set: in every state where the confirmation has just been
\* accepted the selection set is non-empty.
C25_ConfirmHasSelection ==
  (kind \in BulkKinds /\ lastOp = "confirm") =>
    (isBusy /\ selectedIds # {})


\* ---------------------------------------------------------------------
\* C26
\* ---------------------------------------------------------------------

\* A completion reports as many records as it takes out of the selection.
CompletionCountStep ==
  (kind \in BulkKinds /\ lastOp' = "bulkDone") =>
    /\ toast'.level = "success"
    /\ toast'.count = Cardinality(selectedIds \ selectedIds')

\* C26: when a simulated bulk delete/cancel completes, the count in its
\* success notification equals the number of ids the completion removes from
\* the selection set, whatever happened to the selection while the operation
\* was in flight.
C26_CountMatchesRemoved == [][CompletionCountStep]_vars


\* ---------------------------------------------------------------------
\* C27
\* ---------------------------------------------------------------------

\* The effect of one sort request, read off the states before and after it.
SortRequestStep ==
  lastOp' = "sort" =>
    /\ sortColumn' \in SORTABLE_COLUMNS(kind)
    /\ (sortColumn' = sortColumn /\ sortDirection = "asc")
         => sortDirection' = "desc"
    /\ (sortColumn' # sortColumn \/ sortDirection # "asc")
         => sortDirection' = "asc"
    /\ currentPage' = 1
    /\ UNCHANGED <<searchQuery, statusFilter, categoryFilter, selectedIds>>

\* C27: handleSort(c) turns ascending into descending when c is the current
\* sort column, and in every other case makes c the sort column with
\* direction ascending; the current page becomes 1 and the search query, the
\* status / category filters and the selection set are unchanged.
C27_SortRequest == [][SortRequestStep]_vars

\* A second click on the same header has turned the direction to descending
\* while a query is applied and rows are selected.
C27_Witness ==
  /\ lastOp = "sort"
  /\ sortDirection = "desc"
  /\ searchQuery # <<>>
  /\ selectedIds # {}
  /\ currentPage = 1


\* ---------------------------------------------------------------------
\* C28
\* ---------------------------------------------------------------------

\* A character typed right after another typed character, both within one
\* debounce interval: the text waiting in the debounce grows by that
\* character, so that the query applied when it fires is the applied query
\* followed by everything typed.
TypedCharStep ==
  (/\ kind = ProductsCrud
   /\ lastOp = "keystroke"
   /\ lastOp' = "keystroke"
   /\ pendingSearch # <<>>
   /\ Len(Head(pendingSearch)) > Len(searchQuery)
   /\ Len(inputText') = Len(Displayed) + 1)
  => /\ pendingSearch' # <<>>
     /\ Head(pendingSearch') =
          Head(pendingSearch) \o <<inputText'[Len(inputText')]>>

\* C28: on the Products page whose search box displays the applied query,
\* for keystrokes typed faster than the debounce interval the query that the
\* debounce will apply is the previously applied query followed by all typed
\* characters, none lost.
C28_NoTypedCharacterLost == [][TypedCharStep]_vars


\* ---------------------------------------------------------------------
\* C29
\* ---------------------------------------------------------------------

\* The view state Reset establishes.
ResetState(q, s, c, p) == q = <<>> /\ s = "all" /\ c = All /\ p = 1

\* The steps that are not user input: timers and effects.
TimerOps == {"search", "loaded", "clamp"}

\* Reset establishes the reset state, and a step that is not user input
\* taken right after Reset keeps it.
ResetHoldsStep ==
  kind = ProductsCrud =>
    /\ lastOp' = "reset" =>
         ResetState(searchQuery', statusFilter', categoryFilter', currentPage')
    /\ (lastOp = "reset" /\ lastOp' \in TimerOps) =>
         ResetState(searchQuery', statusFilter', categoryFilter', currentPage')

\* C29: on the Products page, after Reset the search query is empty, the
\* status and category filters are 'all' and the current page is 1, and this
\* remains so until the next user input: a debounced search that was pending
\* when Reset was invoked does not change the query afterwards.
C29_ResetHolds == [][ResetHoldsStep]_vars


\* ---------------------------------------------------------------------
\* C30
\* ---------------------------------------------------------------------

\* C30: on the Products page with a category filter, in every reachable
\* state the selected category filter is one of the offered options: 'all'
\* or the category of at least one product currently in the collection.
C30_CategoryFilterOffered ==
  kind = ProductsCrud => categoryFilter \in categories

====
